---- MODULE Spec2Model ----
(***************************************************************************)
(* Tango DJ Agent (src/src/server.js): the playlist planning pipeline      *)
(* (planner call, validatePlanShape, fallbackPlaylistPlan, hydratePlan,    *)
(* normalizePlaylist) and the playlist mutation handlers, as a state       *)
(* machine over the JSON documents the server keeps on disk.               *)
(***************************************************************************)
EXTENDS Integers, Sequences, FiniteSets, TLC

VARIABLES
    library,    \* data/library/library.json: the sequence of catalog tracks
    playlists,  \* data/playlists/<id>.json: playlist id -> persisted document
    templates,  \* data/tanda-library/<id>.json: record id -> saved tanda record
    inflight,   \* requests whose handler is suspended at an await
    now,        \* the wall clock read by Date.now() / new Date()
    served,     \* number of requests handled so far
    req,        \* the last request: its inputs and what its handler read
    res,        \* the response to it: status and body
    call        \* a function under test: its name, arguments and outcome

vars == <<library, playlists, templates, inflight, now, served, req, res, call>>

(***************************************************************************)
(* Bounds of the model.                                                    *)
(***************************************************************************)
MaxClock == 1
MaxRequests == 3
RandDenom == 2
StreamPeriod == 3

(***************************************************************************)
(* JSON / JavaScript values.  A value is a record tagged by k; a catalog   *)
(* track is the record [id, style] (style absent when the field is        *)
(* missing).                                                               *)
(***************************************************************************)
null == [k |-> "null"]
undefined == [k |-> "undefined"]
JTrue == [k |-> "boolean", b |-> TRUE]
JNum(n, d) == [k |-> "number", n |-> n, d |-> d]
JInt(n) == JNum(n, 1)
JStr(s) == [k |-> "string", s |-> s]
JArr(v) == [k |-> "array", v |-> v]
JObj(f) == [k |-> "object", f |-> f]

IsTrack(v) == "id" \in DOMAIN v
IsArray(v) == "k" \in DOMAIN v /\ v.k = "array"
IsObject(v) == "k" \in DOMAIN v /\ v.k = "object"
IsNullish(v) == v = null \/ v = undefined

\* JavaScript truthiness (ToBoolean).
Truthy(v) ==
    IF IsTrack(v) THEN TRUE
    ELSE CASE v.k = "null" -> FALSE
           [] v.k = "undefined" -> FALSE
           [] v.k = "boolean" -> v.b
           [] v.k = "number" -> v.n # 0
           [] v.k = "string" -> v.s # ""
           [] OTHER -> TRUE

\* Property read v[name]: a TypeError on null/undefined, undefined when the
\* value has no such own property.
GetThrows(v, name) == IsNullish(v)
Get(v, name) ==
    IF IsObject(v) /\ name \in DOMAIN v.f THEN v.f[name] ELSE undefined

\* ToIntegerOrInfinity of a JSON number: truncation toward zero.
ToInteger(v) == IF v.n >= 0 THEN v.n \div v.d ELSE -((-v.n) \div v.d)

Min(a, b) == IF a <= b THEN a ELSE b
Max(a, b) == IF a >= b THEN a ELSE b

(***************************************************************************)
(* The fixed pattern.                                                      *)
(***************************************************************************)
pattern == <<"tango", "tango", "vals", "tango", "tango", "milonga">>
patternSizes == <<4, 4, 3, 4, 4, 3>>

FallbackReasoning == JStr("Fallback selection due to unavailable OpenAI plan.")
DefaultReasoning == JStr("AI selected this tanda for flow.")

(***************************************************************************)
(* Catalog.                                                                *)
(***************************************************************************)
TrackNames ==
    <<"t01", "t02", "t03", "t04", "t05", "t06", "t07", "t08", "t09", "t10",
      "t11", "t12", "t13", "t14", "t15", "t16", "t17", "t18", "t19", "t20",
      "t21", "t22", "t23", "t24", "t25", "t26", "t27", "t28", "t29", "t30">>

StyleOf(track) == IF "style" \in DOMAIN track THEN track.style ELSE "undefined"

\* Property names the object literal { tango: [], ... } inherits from
\* Object.prototype: grouped[name] is a function (or the prototype object),
\* truthy and without a push method.
PrototypeKeys ==
    {"constructor", "toString", "toLocaleString", "valueOf", "hasOwnProperty",
     "isPrototypeOf", "propertyIsEnumerable", "__proto__", "__defineGetter__",
     "__defineSetter__", "__lookupGetter__", "__lookupSetter__"}

\* grouped[style].push(track) is a TypeError when grouped[style] is inherited.
groupByStyleThrows(lib) ==
    \E i \in 1..Len(lib) : StyleOf(lib[i]) \in PrototypeKeys

\* groupByStyle: grouped[track.style] ? track.style : 'tango'
BucketOf(track) ==
    IF StyleOf(track) \in {"tango", "vals", "milonga", "cortina"}
    THEN StyleOf(track) ELSE "tango"

groupByStyle(lib) ==
    [s \in {"tango", "vals", "milonga", "cortina"} |->
        SelectSeq(lib, LAMBDA t : BucketOf(t) = s)]

(***************************************************************************)
(* shuffle: Fisher-Yates over a copy.  Math.random() is a stream of        *)
(* numerators over RandDenom; a stream is a finite sequence of numerators   *)
(* repeated for ever, and the k-th draw is its element at k modulo its      *)
(* length.                                                                  *)
(***************************************************************************)
RandomStreams(period) == [1..period -> 0..(RandDenom - 1)]
Random(seed, k) == seed[(k % Len(seed)) + 1]

Swap(arr, i, j) == [arr EXCEPT ![i] = arr[j], ![j] = arr[i]]

RECURSIVE ShuffleFrom(_, _, _, _)
\* i is the 0-based loop index of the source; k the draws made so far.
ShuffleFrom(copy, i, seed, k) ==
    IF i <= 0 THEN copy
    ELSE LET j == (Random(seed, k) * (i + 1)) \div RandDenom
         IN  ShuffleFrom(Swap(copy, i + 1, j + 1), i - 1, seed, k + 1)

shuffle(arr, seed, k) == ShuffleFrom(arr, Len(arr) - 1, seed, k)
Draws(arr) == Max(Len(arr) - 1, 0)

(***************************************************************************)
(* fallbackPlaylistPlan.                                                   *)
(***************************************************************************)
\* shuffle(grouped[slot.type]).filter((track) => !used.has(track.id))
Unused(arr, used) == SelectSeq(arr, LAMBDA t : t.id \notin used)
\* The pool without the filter on the used set.
FallbackPoolUnfiltered(src, used, seed, k) == shuffle(src, seed, k)
FallbackPool(src, used, seed, k) == Unused(shuffle(src, seed, k), used)

\* pool.slice(0, slot.size)
Slice(arr, from, to) == SubSeq(arr, from + 1, Min(to, Len(arr)))
\* The whole pool, whatever the slot size.
ChosenWhole(pool, size) == pool

Chosen(pool, size) == Slice(pool, 0, size)

IdsOf(tracks) == {tracks[i].id : i \in 1..Len(tracks)}

\* Every tanda typed tango, whatever its slot.
FallbackTandaTango(idx, chosen) ==
    [id |-> idx, type |-> "tango", reasoning |-> FallbackReasoning,
     tracks |-> chosen]

FallbackTanda(idx, chosen) ==
    [id |-> idx, type |-> pattern[idx], reasoning |-> FallbackReasoning,
     tracks |-> chosen]

RECURSIVE FallbackTandas(_, _, _, _, _, _)
\* pattern.map(...): slot idx (1-based), tandas built so far, the closure's
\* used set, and the number of random draws made so far.
FallbackTandas(grouped, idx, acc, used, seed, k) ==
    IF idx > Len(pattern) THEN [tandas |-> acc, used |-> used, k |-> k]
    ELSE LET src == grouped[pattern[idx]]
             chosen == Chosen(FallbackPool(src, used, seed, k), patternSizes[idx])
         IN  FallbackTandas(grouped, idx + 1,
                            Append(acc, FallbackTanda(idx, chosen)),
                            used \cup IdsOf(chosen), seed, k + Draws(src))

\* grouped.cortina.length ? grouped.cortina : grouped.tango
\* The tango bucket whether or not there are cortina tracks.
CortinaSourceTango(grouped) == grouped["tango"]

CortinaSource(grouped) ==
    IF Len(grouped["cortina"]) # 0 THEN grouped["cortina"] ELSE grouped["tango"]

\* tandas.map((_, idx) => cortinaPool[idx] || null)
FallbackCortinas(tandas, cortinaPool) ==
    [i \in 1..Len(tandas) |->
        IF i <= Len(cortinaPool) THEN cortinaPool[i] ELSE null]

fallbackPlaylistPlan(lib, seed) ==
    LET grouped == groupByStyle(lib)
        t == FallbackTandas(grouped, 1, <<>>, {}, seed, 0)
        cortinaPool == FallbackPool(CortinaSource(grouped), t.used, seed, t.k)
    IN  [tandas |-> t.tandas, cortinas |-> FallbackCortinas(t.tandas, cortinaPool)]

(***************************************************************************)
(* validatePlanShape.  `every` stops at the first entry whose test is      *)
(* false; reading .type of a null entry is a TypeError.                    *)
(***************************************************************************)
\* t.type === pattern[i] && Array.isArray(t.trackIds), for a non-null t
EntryOk(t, i) ==
    /\ Get(t, "type") = JStr(pattern[i])
    /\ IsArray(Get(t, "trackIds"))

\* !plan || !Array.isArray(plan.tandas) || plan.tandas.length !== 6
ShapeRejected(plan) ==
    \/ ~Truthy(plan)
    \/ ~IsArray(Get(plan, "tandas"))
    \/ Len(Get(plan, "tandas").v) # 6

validatePlanShapeThrows(plan) ==
    /\ ~ShapeRejected(plan)
    /\ \E i \in 1..6 :
          /\ IsNullish(Get(plan, "tandas").v[i])
          /\ \A j \in 1..(i - 1) : EntryOk(Get(plan, "tandas").v[j], j)

validatePlanShape(plan) ==
    /\ ~ShapeRejected(plan)
    /\ \A i \in 1..6 :
          /\ ~IsNullish(Get(plan, "tandas").v[i])
          /\ EntryOk(Get(plan, "tandas").v[i], i)

(***************************************************************************)
(* hydratePlan.                                                            *)
(***************************************************************************)
\* new Map(library.tracks.map((track) => [track.id, track])).get(id): the
\* last track carrying that id; undefined for anything that is no key.
trackMapGet(lib, id) ==
    LET hits == {i \in 1..Len(lib) : JStr(lib[i].id) = id}
    IN  IF hits = {} THEN undefined
        ELSE lib[CHOOSE i \in hits : \A j \in hits : j <= i]

\* ids.map((id) => trackMap.get(id)).filter(Boolean)
Resolve(ids, lib) ==
    SelectSeq([i \in 1..Len(ids) |-> trackMapGet(lib, ids[i])], Truthy)

\* tanda.reasoning || 'AI selected this tanda for flow.'
ReasoningOf(tanda) ==
    IF Truthy(Get(tanda, "reasoning")) THEN Get(tanda, "reasoning")
    ELSE DefaultReasoning

\* The resolved tracks without the clamp to the slot size.
HydrateTracksUnclamped(tanda, idx, lib) ==
    Resolve(IF Truthy(Get(tanda, "trackIds")) THEN Get(tanda, "trackIds").v
            ELSE <<>>, lib)

\* (tanda.trackIds || [])...slice(0, patternSizes[idx])
HydrateTracks(tanda, idx, lib) ==
    LET ids == IF Truthy(Get(tanda, "trackIds")) THEN Get(tanda, "trackIds").v
               ELSE <<>>
    IN  Slice(Resolve(ids, lib), 0, patternSizes[idx])

HydrateTanda(tanda, idx, lib) ==
    [id |-> idx, type |-> Get(tanda, "type").s, reasoning |-> ReasoningOf(tanda),
     tracks |-> HydrateTracks(tanda, idx, lib)]

\* (plan.cortinaTrackIds || []).map(...): .map of a truthy non-array is a
\* TypeError.
hydratePlanThrows(plan) ==
    /\ Truthy(Get(plan, "cortinaTrackIds"))
    /\ ~IsArray(Get(plan, "cortinaTrackIds"))

HydrateCortinas(plan, lib) ==
    LET ids == IF Truthy(Get(plan, "cortinaTrackIds"))
               THEN Get(plan, "cortinaTrackIds").v ELSE <<>>
    IN  Slice(Resolve(ids, lib), 0, 6)

hydratePlan(plan, lib) ==
    [tandas |-> [i \in 1..Len(Get(plan, "tandas").v) |->
                    HydrateTanda(Get(plan, "tandas").v[i], i, lib)],
     cortinas |-> HydrateCortinas(plan, lib)]


(***************************************************************************)
(* normalizePlaylist and the JSON written to disk.                         *)
(***************************************************************************)
\* (playlist.tandas || []).map((t) => ({ ...t, tracks: t.tracks || [] })):
\* reading .tracks of an undefined entry is a TypeError.
normalizePlaylistThrows(playlist) ==
    \E i \in 1..Len(playlist.tandas) : IsNullish(playlist.tandas[i])

NormalizeCortinas(cortinas) ==
    [i \in 1..Len(cortinas) |-> IF Truthy(cortinas[i]) THEN cortinas[i] ELSE null]

\* t.tracks || [] keeps every array a persisted tanda carries.
normalizePlaylist(playlist, clock) ==
    [playlist EXCEPT !.cortinas = NormalizeCortinas(playlist.cortinas),
                     !.updatedAt = clock]

\* JSON.stringify writes an array hole or undefined element as null.
Stringify(arr) ==
    [i \in 1..Len(arr) |-> IF arr[i] = undefined THEN null ELSE arr[i]]

writeJson(playlist) ==
    [playlist EXCEPT
        !.tandas = [i \in 1..Len(playlist.tandas) |->
                       [playlist.tandas[i] EXCEPT !.tracks = Stringify(@)]],
        !.cortinas = Stringify(playlist.cortinas)]

readPlaylist(id) == IF id \in DOMAIN playlists THEN playlists[id] ELSE null

(***************************************************************************)
(* The planner call (createPlanWithAgent).  The external capability either *)
(* is not configured, rejects (error or timeout), or returns text that     *)
(* JSON.parse rejects or parses into some JSON value.                      *)
(***************************************************************************)
NoKeyReason == "No OpenAI API key found"
FailedReason == "OpenAI generation failed"
InvalidNote == "Agent response shape was invalid; fallback plan used"

\* Building the debug summary reads plan.tandas, maps over it reading t.type,
\* and reads plan.cortinaTrackIds: TypeErrors on a null plan, a truthy
\* non-array tandas, or a null entry.
DebugSummaryThrows(plan) ==
    \/ GetThrows(plan, "tandas")
    \/ /\ Truthy(Get(plan, "tandas"))
       /\ \/ ~IsArray(Get(plan, "tandas"))
          \/ \E i \in 1..Len(Get(plan, "tandas").v) :
                GetThrows(Get(plan, "tandas").v[i], "type")

createPlanWithAgent(outcome) ==
    CASE outcome.kind = "nokey" ->
            [threw |-> FALSE, plan |-> null,
             debug |-> [enabled |-> FALSE, reason |-> NoKeyReason, validation |-> ""]]
      [] outcome.kind = "parsed" /\ ~DebugSummaryThrows(outcome.plan) ->
            [threw |-> FALSE, plan |-> outcome.plan,
             debug |-> [enabled |-> TRUE, reason |-> "", validation |-> ""]]
      [] OTHER ->
            [threw |-> TRUE, plan |-> null,
             debug |-> [enabled |-> FALSE, reason |-> FailedReason, validation |-> ""]]

(***************************************************************************)
(* POST /api/playlists, as a function of what the handler reads.           *)
(***************************************************************************)
\* The fallback decision without the shape check.
usedFallbackUnvalidated(plan) == ~Truthy(plan)

\* !plan || !validatePlanShape(plan)
usedFallback(plan) == ~Truthy(plan) \/ ~validatePlanShape(plan)

\* The planner's debug record as it came, with no note added.
AgentDebugAsReturned(debug, fallback) == debug

\* if (usedFallback && agentDebug?.enabled) agentDebug.validation = ...
AgentDebug(debug, fallback) ==
    IF fallback /\ debug.enabled THEN [debug EXCEPT !.validation = InvalidNote]
    ELSE debug

Hydrated(plan, lib, seed) ==
    IF usedFallback(plan) THEN fallbackPlaylistPlan(lib, seed)
    ELSE hydratePlan(plan, lib)

fallbackPlaylistPlanThrows(lib) == groupByStyleThrows(lib)

\* A guard that lets every library through.
LibraryNeverEmpty(lib) == FALSE

\* if (!library.tracks?.length) return res.status(400)...
LibraryIsEmpty(lib) == Len(lib) = 0

\* An exception leaving the try block: validatePlanShape or hydratePlan.
CreateThrows(plan) ==
    \/ Truthy(plan) /\ validatePlanShapeThrows(plan)
    \/ ~usedFallback(plan) /\ hydratePlanThrows(plan)

NewPlaylist(id, plan, debug, lib, seed, clock) ==
    LET fallback == usedFallback(plan)
        hydrated == Hydrated(plan, lib, seed)
    IN  normalizePlaylist(
            [id |-> id,
             generationSource |-> IF fallback THEN "fallback" ELSE "agent",
             agentDebug |-> AgentDebug(debug, fallback),
             createdAt |-> clock,
             tandas |-> hydrated.tandas,
             cortinas |-> hydrated.cortinas,
             updatedAt |-> clock], clock)

(***************************************************************************)
(* Array.prototype.splice as move-tanda uses it.                           *)
(***************************************************************************)
\* The relative start: ToIntegerOrInfinity, then clamped into 0..len.
SpliceStart(len, v) ==
    IF ToInteger(v) < 0 THEN Max(len + ToInteger(v), 0) ELSE Min(ToInteger(v), len)

\* const [x] = arr.splice(v, 1): the removed element, undefined if none.
Removed(arr, v) ==
    IF SpliceStart(Len(arr), v) < Len(arr) THEN arr[SpliceStart(Len(arr), v) + 1]
    ELSE undefined

Without(arr, v) ==
    LET st == SpliceStart(Len(arr), v)
    IN  SubSeq(arr, 1, st) \o SubSeq(arr, st + 2, Len(arr))

\* arr.splice(v, 0, x)
Inserted(arr, v, x) ==
    LET st == SpliceStart(Len(arr), v)
    IN  SubSeq(arr, 1, st) \o <<x>> \o SubSeq(arr, st + 1, Len(arr))

MoveItem(arr, fromIndex, toIndex) ==
    Inserted(Without(arr, fromIndex), toIndex, Removed(arr, fromIndex))

IsNumber(v) == v.k = "number"

MovedPlaylist(playlist, fromIndex, toIndex) ==
    [playlist EXCEPT !.tandas = MoveItem(playlist.tandas, fromIndex, toIndex),
                     !.cortinas = MoveItem(playlist.cortinas, fromIndex, toIndex)]


(***************************************************************************)
(* replace-track: playlist.tandas[tandaIndex].tracks[trackIndex] = x.      *)
(***************************************************************************)
DigitStrings == [s \in {"0", "1", "2", "3", "4", "5"} |->
    CASE s = "0" -> 0 [] s = "1" -> 1 [] s = "2" -> 2
      [] s = "3" -> 3 [] s = "4" -> 4 [] s = "5" -> 5]

\* The array index a property key names, -1 when it names none.
ArrayIndex(v) ==
    CASE v.k = "number" /\ v.n >= 0 /\ v.n % v.d = 0 -> v.n \div v.d
      [] v.k = "string" /\ v.s \in DOMAIN DigitStrings -> DigitStrings[v.s]
      [] OTHER -> -1

\* arr[v]: undefined outside the array.
ElementAt(arr, v) ==
    IF ArrayIndex(v) \in 0..(Len(arr) - 1) THEN arr[ArrayIndex(v) + 1] ELSE undefined

\* arr[v] = x: an index at or past the end grows the array, leaving holes;
\* a key that is no index adds a property JSON.stringify does not write.
SetAt(arr, v, x) ==
    LET idx == ArrayIndex(v)
    IN  IF idx < 0 THEN arr
        ELSE [i \in 1..Max(Len(arr), idx + 1) |->
                 IF i = idx + 1 THEN x
                 ELSE IF i <= Len(arr) THEN arr[i] ELSE undefined]

\* A lookup that settles for the first catalog track when the id is unknown.
FindTrackOrFirst(lib, id) ==
    LET hits == {i \in 1..Len(lib) : JStr(lib[i].id) = id}
    IN  IF hits # {} THEN lib[CHOOSE i \in hits : \A j \in hits : i <= j]
        ELSE IF Len(lib) = 0 THEN undefined ELSE lib[1]

\* library.tracks.find((t) => t.id === replacementTrackId)
FindTrack(lib, id) ==
    LET hits == {i \in 1..Len(lib) : JStr(lib[i].id) = id}
    IN  IF hits = {} THEN undefined
        ELSE lib[CHOOSE i \in hits : \A j \in hits : i <= j]

ReplaceThrows(playlist, tandaIndex) ==
    IsNullish(ElementAt(playlist.tandas, tandaIndex))

ReplacedPlaylist(playlist, tandaIndex, trackIndex, replacement) ==
    [playlist EXCEPT !.tandas[ArrayIndex(tandaIndex) + 1].tracks =
                        SetAt(@, trackIndex, replacement)]

(***************************************************************************)
(* POST /api/tanda-library: the record written for playlist.tandas[i].     *)
(***************************************************************************)
\* A pick that ignores the index and takes the playlist's first tanda.
SavedTandaFirst(playlist, tandaIndex) == playlist.tandas[1]

\* const tanda = playlist.tandas[tandaIndex]
SavedTanda(playlist, tandaIndex) == ElementAt(playlist.tandas, tandaIndex)

\* id: `saved-tanda-${Date.now()}`, savedAt: new Date().toISOString()
TandaRecord(playlistId, tanda, clock) ==
    [id |-> clock, sourcePlaylistId |-> playlistId, savedAt |-> clock, tanda |-> tanda]

(***************************************************************************)
(* Catalogs and request inputs the model draws from.                       *)
(***************************************************************************)
\* nT tango, nV vals, nM milonga, nC cortina tracks, then nO tracks whose
\* style is unrecognised or missing.
Catalog(nT, nV, nM, nC, nO) ==
    [i \in 1..(nT + nV + nM + nC + nO) |->
        IF i <= nT THEN [id |-> TrackNames[i], style |-> "tango"]
        ELSE IF i <= nT + nV THEN [id |-> TrackNames[i], style |-> "vals"]
        ELSE IF i <= nT + nV + nM THEN [id |-> TrackNames[i], style |-> "milonga"]
        ELSE IF i <= nT + nV + nM + nC THEN [id |-> TrackNames[i], style |-> "cortina"]
        ELSE IF (i - nT - nV - nM - nC) % 2 = 1
             THEN [id |-> TrackNames[i], style |-> "foxtrot"]
             ELSE [id |-> TrackNames[i]]]

MainCatalog == Catalog(5, 1, 1, 2, 1)
Libraries == {<<>>, MainCatalog}

Strs(ids) == [i \in 1..Len(ids) |-> JStr(ids[i])]
Entry(type, ids) ==
    JObj([type |-> JStr(type), reasoning |-> JStr("flow"), trackIds |-> JArr(Strs(ids))])
Plan(tandas, cortinaTrackIds) ==
    JObj([tandas |-> JArr(tandas), cortinaTrackIds |-> cortinaTrackIds])

BaseTandas ==
    <<Entry("tango", <<"t01", "t02", "t03", "t04">>),
      Entry("tango", <<"t05", "t10">>),
      Entry("vals", <<"t06">>),
      Entry("tango", <<>>),
      Entry("tango", <<"t01", "zzz", "t02", "t03", "t01", "t05">>),
      Entry("milonga", <<"t07", "zzz">>)>>

SixCortinas == JArr(Strs(<<"t08", "t09", "t08", "t01", "t09", "t08">>))

\* What the planner may send back as cortinaTrackIds.
CortinaShapes ==
    {SixCortinas,
     JArr(Strs(<<"t08", "zzz", "t09", "t08", "t09", "t08">>)),
     JArr(Strs(<<"t08", "t09", "t08", "t01", "t09", "t08", "t02">>)),
     JArr(Strs(<<"zzz", "t09", "t08", "t01", "t09", "t08", "t02">>)),
     JArr(<<>>), null, JInt(5), JStr("t08"), JObj([t08 |-> JTrue])}

\* Parsed candidates of the create request.
CandidatePlans ==
    {Plan(BaseTandas, SixCortinas),
     Plan(BaseTandas, JArr(Strs(<<"t08", "zzz", "t09", "t08", "t09", "t08">>))),
     Plan(BaseTandas, JInt(5)),
     JInt(0),
     Plan(SubSeq(BaseTandas, 1, 5), SixCortinas),
     Plan([BaseTandas EXCEPT ![3] = null], SixCortinas)}

PlannerOutcomes ==
    {[kind |-> "nokey"], [kind |-> "rejected"], [kind |-> "unparseable"]}
    \cup {[kind |-> "parsed", plan |-> p] : p \in CandidatePlans}

\* fromIndex / toIndex / tandaIndex / trackIndex values of a request body.
MoveInputs ==
    {<<JInt(f), JInt(t)>> : f \in 0..5, t \in 0..5}
    \cup {<<undefined, JInt(0)>>, <<JInt(0), JStr("1")>>, <<JInt(-1), JInt(0)>>,
          <<JInt(0), JInt(-2)>>, <<JInt(6), JInt(0)>>, <<JInt(0), JInt(7)>>,
          <<JNum(5, 2), JInt(0)>>, <<JInt(1), JNum(7, 2)>>, <<JInt(-7), JInt(3)>>}

\* <<tandaIndex, trackIndex, replacementTrackId>>
ReplaceInputs ==
    {<<JInt(0), JInt(0), JStr("t06")>>, <<JInt(2), JInt(1), JStr("t01")>>,
     <<JInt(3), JInt(2), JStr("t06")>>, <<JStr("1"), JStr("0"), JStr("t06")>>,
     <<JInt(0), JInt(0), JStr("zzz")>>, <<JInt(0), JInt(0), undefined>>,
     <<JInt(6), JInt(0), JStr("t06")>>, <<undefined, JInt(0), JStr("t06")>>,
     <<JInt(0), JInt(-1), JStr("t06")>>, <<JInt(0), JNum(1, 2), JStr("t06")>>,
     <<JInt(6), JInt(0), JStr("zzz")>>}

\* tandaIndex values of a tanda-library request body.
SaveInputs == {JInt(0), JInt(2), JStr("1"), JInt(6), undefined}

PlaylistIds == 0..MaxClock

Put(f, key, v) == [x \in DOMAIN f \cup {key} |-> IF x = key THEN v ELSE f[x]]

(***************************************************************************)
(* The server.                                                             *)
(***************************************************************************)
Init ==
    /\ library \in Libraries
    /\ playlists = <<>>
    /\ templates = <<>>
    /\ inflight = <<>>
    /\ now = 0
    /\ served = 0
    /\ req = [op |-> "none"]
    /\ res = [status |-> "none"]
    /\ call = [fn |-> "none"]

Tick ==
    /\ now < MaxClock
    /\ now' = now + 1
    /\ UNCHANGED <<library, playlists, templates, inflight, served, req, res, call>>

\* POST /api/playlists
CreatePlaylist ==
    /\ served < MaxRequests
    /\ served' = served + 1
    /\ UNCHANGED <<library, templates, inflight, now, call>>
    /\ IF LibraryIsEmpty(library)
       THEN /\ req' = [op |-> "create", called |-> FALSE]
            /\ res' = [status |-> "400", error |-> "Library is empty. Scan library first."]
            /\ UNCHANGED playlists
       ELSE \E outcome \in PlannerOutcomes, seed \in RandomStreams(1) :
              LET agent == createPlanWithAgent(outcome)
                  random == \/ Truthy(agent.plan) /\ validatePlanShapeThrows(agent.plan)
                            \/ usedFallback(agent.plan)
                  doc == writeJson(NewPlaylist(now, agent.plan, agent.debug,
                                               library, seed, now))
              IN  /\ random \/ seed = <<0>>
                  /\ req' = [op |-> "create", id |-> now,
                             called |-> outcome.kind # "nokey",
                             outcome |-> outcome, seed |-> seed]
                  /\ IF \/ CreateThrows(agent.plan)
                        \/ /\ usedFallback(agent.plan)
                           /\ fallbackPlaylistPlanThrows(library)
                     THEN /\ res' = [status |-> "unhandled"]
                          /\ UNCHANGED playlists
                     ELSE /\ res' = [status |-> "201"]
                          /\ playlists' = Put(playlists, now, doc)

\* POST /api/playlists/:id/move-tanda
MoveTanda ==
    /\ served < MaxRequests
    /\ served' = served + 1
    /\ UNCHANGED <<library, templates, inflight, now, call>>
    /\ \E id \in PlaylistIds, in \in MoveInputs :
          LET playlist == readPlaylist(id)
              moved == MovedPlaylist(playlist, in[1], in[2])
              updated == writeJson(normalizePlaylist(moved, now))
          IN  /\ req' = [op |-> "move-tanda", id |-> id, fromIndex |-> in[1],
                         toIndex |-> in[2], read |-> playlist]
              /\ IF playlist = null
                 THEN res' = [status |-> "404", error |-> "Playlist not found"] /\ UNCHANGED playlists
                 ELSE IF ~IsNumber(in[1]) \/ ~IsNumber(in[2])
                 THEN /\ res' = [status |-> "400",
                                  error |-> "fromIndex and toIndex must be numbers"]
                      /\ UNCHANGED playlists
                 ELSE IF normalizePlaylistThrows(moved)
                 THEN res' = [status |-> "unhandled"] /\ UNCHANGED playlists
                 ELSE /\ res' = [status |-> "200"]
                      /\ playlists' = Put(playlists, playlist.id, updated)

\* POST /api/playlists/:id/replace-track
ReplaceTrack ==
    /\ served < MaxRequests
    /\ served' = served + 1
    /\ UNCHANGED <<library, templates, inflight, now, call>>
    /\ \E id \in PlaylistIds, in \in ReplaceInputs :
          LET tandaIndex == in[1]
              trackIndex == in[2]
              replacementTrackId == in[3]
              playlist == readPlaylist(id)
              replacement == FindTrack(library, replacementTrackId)
              replaced == ReplacedPlaylist(playlist, tandaIndex, trackIndex, replacement)
              updated == writeJson(normalizePlaylist(replaced, now))
          IN  /\ req' = [op |-> "replace-track", id |-> id, tandaIndex |-> tandaIndex,
                         trackIndex |-> trackIndex,
                         replacementTrackId |-> replacementTrackId, read |-> playlist]
              /\ IF playlist = null
                 THEN res' = [status |-> "404", error |-> "Playlist not found"] /\ UNCHANGED playlists
                 ELSE IF ~Truthy(replacement)
                 THEN /\ res' = [status |-> "400",
                                  error |-> "replacementTrackId not found in library"]
                      /\ UNCHANGED playlists
                 ELSE IF ReplaceThrows(playlist, tandaIndex)
                 THEN res' = [status |-> "unhandled"] /\ UNCHANGED playlists
                 ELSE /\ res' = [status |-> "200"]
                      /\ playlists' = Put(playlists, playlist.id, updated)

\* POST /api/tanda-library
SaveTanda ==
    /\ served < MaxRequests
    /\ served' = served + 1
    /\ UNCHANGED <<library, playlists, inflight, now, call>>
    /\ \E playlistId \in PlaylistIds, tandaIndex \in SaveInputs :
          LET playlist == readPlaylist(playlistId)
              tanda == SavedTanda(playlist, tandaIndex)
              record == TandaRecord(playlistId, tanda, now)
          IN  /\ req' = [op |-> "save-tanda", id |-> playlistId,
                         tandaIndex |-> tandaIndex, read |-> playlist]
              /\ IF playlist = null
                 THEN /\ res' = [status |-> "404", error |-> "Playlist not found"]
                      /\ UNCHANGED templates
                 ELSE IF ~Truthy(tanda)
                 THEN /\ res' = [status |-> "404", error |-> "Tanda not found"]
                      /\ UNCHANGED templates
                 ELSE /\ res' = [status |-> "201"]
                      /\ templates' = Put(templates, record.id, record)

Next == Tick \/ CreatePlaylist \/ MoveTanda \/ ReplaceTrack \/ SaveTanda

Spec == Init /\ [][Next]_vars


(***************************************************************************)
(* The planning functions on their own: validatePlanShape and hydratePlan  *)
(* applied to a raw plan and a catalog drawn from bounded sets.            *)
(***************************************************************************)
\* What a planner may put at position i of tandas.
EntryShapes(i) ==
    {BaseTandas[i], null, JInt(7), JStr("tango"), JArr(<<>>),
     JObj([type |-> JStr(pattern[i])]),
     JObj([type |-> JStr(pattern[i]), trackIds |-> JStr("t01")]),
     JObj([type |-> JStr(pattern[i]), trackIds |-> null]),
     JObj([type |-> JStr(pattern[i]), trackIds |-> JArr(<<>>)]),
     JObj([type |-> JStr(pattern[i]), reasoning |-> JStr(""),
           trackIds |-> JArr(<<JStr("t02"), JInt(3), null, JStr("t02"), JStr("t09")>>)]),
     JObj([trackIds |-> JArr(<<>>)]),
     JObj([type |-> JInt(1), trackIds |-> JArr(<<>>)]),
     Entry("cortina", <<"t08">>),
     Entry(pattern[(i % 6) + 1], <<"t01">>),
     Entry(pattern[((i + 3) % 6) + 1], <<"t01">>)}

RawPlans ==
    {Plan([BaseTandas EXCEPT ![i] = e], SixCortinas) :
        i \in 1..6, e \in UNION {EntryShapes(k) : k \in 1..6}}
    \cup {Plan([BaseTandas EXCEPT ![1] = e1, ![4] = e2], SixCortinas) :
            e1 \in EntryShapes(1), e2 \in EntryShapes(4)}
    \cup {Plan(SubSeq(BaseTandas \o BaseTandas, 1, n), SixCortinas) : n \in 0..8}
    \cup {Plan(BaseTandas, c) : c \in CortinaShapes}
    \cup {JObj([tandas |-> JArr(BaseTandas)]),
          JObj([tandas |-> JInt(6), cortinaTrackIds |-> SixCortinas]),
          JObj([tandas |-> JObj([length |-> JInt(6)])]),
          JObj([cortinaTrackIds |-> SixCortinas]),
          null, JInt(0), JInt(5), JStr(""), JStr("plan"), JTrue, JArr(BaseTandas)}

PlanCatalogs == {MainCatalog, Catalog(2, 1, 0, 1, 0)}

InitPlan ==
    /\ library = <<>>
    /\ playlists = <<>>
    /\ templates = <<>>
    /\ inflight = <<>>
    /\ now = 0
    /\ served = 0
    /\ req = [op |-> "none"]
    /\ res = [status |-> "none"]
    /\ call \in {[fn |-> "validatePlanShape", plan |-> p, lib |-> l,
                   stage |-> "raw", valid |-> "pending"] :
                    p \in RawPlans, l \in PlanCatalogs}

\* validatePlanShape(plan)
ValidateCall ==
    /\ call.stage = "raw"
    /\ call' = [call EXCEPT
                  !.stage = "validated",
                  !.valid = IF validatePlanShapeThrows(call.plan) THEN "threw"
                            ELSE IF validatePlanShape(call.plan) THEN "true"
                            ELSE "false"]
    /\ UNCHANGED <<library, playlists, templates, inflight, now, served, req, res>>

\* hydratePlan(plan, library), on a plan validatePlanShape accepted
HydrateCall ==
    /\ call.stage = "validated"
    /\ call.valid = "true"
    /\ call' = IF hydratePlanThrows(call.plan)
               THEN [call EXCEPT !.fn = "hydratePlan", !.stage = "hydrate threw"]
               ELSE [fn |-> "hydratePlan", plan |-> call.plan, lib |-> call.lib,
                     stage |-> "hydrated", valid |-> call.valid,
                     result |-> hydratePlan(call.plan, call.lib)]
    /\ UNCHANGED <<library, playlists, templates, inflight, now, served, req, res>>

NextPlan == ValidateCall \/ HydrateCall

SpecPlan == InitPlan /\ [][NextPlan]_vars

(***************************************************************************)
(* fallbackPlaylistPlan on its own, over catalogs large and small.         *)
(***************************************************************************)
Reverse(arr) == [i \in 1..Len(arr) |-> arr[Len(arr) + 1 - i]]

FallbackCatalogs ==
    LET shapes == {<<nT, nV, nM, nC, nO>> \in
                      {0, 1, 4, 16, 17} \X {0, 3} \X {3, 4} \X {0, 1, 7} \X {0, 2} :
                      nT + nV + nM + nC + nO \in 1..Len(TrackNames)}
                  \cup {<<0, 0, 0, 0, 0>>, <<1, 0, 0, 0, 0>>, <<0, 0, 0, 2, 0>>,
                        <<6, 1, 0, 0, 1>>}
    IN  {Catalog(c[1], c[2], c[3], c[4], c[5]) : c \in shapes}
        \cup {Reverse(Catalog(c[1], c[2], c[3], c[4], c[5])) : c \in shapes}

InitFallback ==
    /\ library = <<>>
    /\ playlists = <<>>
    /\ templates = <<>>
    /\ inflight = <<>>
    /\ now = 0
    /\ served = 0
    /\ req = [op |-> "none"]
    /\ res = [status |-> "none"]
    /\ call \in {[fn |-> "fallbackPlaylistPlan", lib |-> l, seed |-> sd, stage |-> "raw"] :
                    l \in FallbackCatalogs, sd \in RandomStreams(StreamPeriod)}

FallbackCall ==
    /\ call.fn = "fallbackPlaylistPlan"
    /\ call.stage = "raw"
    /\ call' = IF fallbackPlaylistPlanThrows(call.lib)
               THEN [call EXCEPT !.stage = "threw"]
               ELSE [fn |-> "fallbackPlaylistPlan", lib |-> call.lib,
                     seed |-> call.seed, stage |-> "planned",
                     result |-> fallbackPlaylistPlan(call.lib, call.seed)]
    /\ UNCHANGED <<library, playlists, templates, inflight, now, served, req, res>>

NextFallback == FallbackCall

SpecFallback == InitFallback /\ [][NextFallback]_vars

(***************************************************************************)
(* groupByStyle on its own, over short catalogs of every kind of style.    *)
(***************************************************************************)
GroupStyles ==
    {"tango", "vals", "milonga", "cortina", "foxtrot", "", "Tango",
     "constructor", "toString", "__proto__"}

\* The i-th track with each style, and without the style field.
TrackShapes(i) ==
    {[id |-> TrackNames[i], style |-> st] : st \in GroupStyles}
    \cup {[id |-> TrackNames[i]]}

GroupCatalogs ==
    {<<>>} \cup {<<a>> : a \in TrackShapes(1)}
    \cup {<<a, b>> : a \in TrackShapes(1), b \in TrackShapes(2)}
    \cup {<<a, b, c>> : a \in TrackShapes(1), b \in TrackShapes(2),
                         c \in {t \in TrackShapes(3) : StyleOf(t) \in
                                  {"tango", "cortina", "undefined", "constructor"}}}

InitGroup ==
    /\ library = <<>>
    /\ playlists = <<>>
    /\ templates = <<>>
    /\ inflight = <<>>
    /\ now = 0
    /\ served = 0
    /\ req = [op |-> "none"]
    /\ res = [status |-> "none"]
    /\ call \in {[fn |-> "groupByStyle", lib |-> l, stage |-> "raw"] : l \in GroupCatalogs}

GroupCall ==
    /\ call.fn = "groupByStyle"
    /\ call.stage = "raw"
    /\ call' = IF groupByStyleThrows(call.lib)
               THEN [call EXCEPT !.stage = "threw"]
               ELSE [fn |-> "groupByStyle", lib |-> call.lib, stage |-> "grouped",
                     result |-> groupByStyle(call.lib)]
    /\ UNCHANGED <<library, playlists, templates, inflight, now, served, req, res>>

NextGroup == GroupCall

SpecGroup == InitGroup /\ [][NextGroup]_vars

(***************************************************************************)
(* Overlapping requests.  A handler is suspended at each await, so two     *)
(* move-tanda / replace-track requests interleave at three points: the     *)
(* request arrives and issues its read of the playlist file; the read      *)
(* completes and the handler runs up to its awaited write; the write       *)
(* completes and the response is sent.                                     *)
(***************************************************************************)
Clients == {"a", "b"}

\* The playlist on disk when the requests arrive: created without an API key.
RacePlaylist ==
    LET agent == createPlanWithAgent([kind |-> "nokey"])
    IN  writeJson(NewPlaylist(0, agent.plan, agent.debug, MainCatalog, <<0>>, 0))

RaceMoveInputs ==
    {<<JInt(0), JInt(2)>>, <<JInt(3), JInt(1)>>, <<JInt(5), JInt(0)>>,
     <<undefined, JInt(0)>>}

RaceReplaceInputs ==
    {<<JInt(0), JInt(0), JStr("t06")>>, <<JInt(1), JInt(0), JStr("t07")>>,
     <<JInt(0), JInt(0), JStr("zzz")>>, <<JInt(6), JInt(0), JStr("t06")>>}

\* Clients whose write has completed.
Written == {c \in Clients : inflight[c].pc = "done" /\ inflight[c].status = "200"}

\* The value a suspended handler's write puts on disk, rebuilt from the file
\* as it is when the write completes.
PendingWriteRebased(r, files) ==
    IF r.op = "move-tanda"
    THEN writeJson(normalizePlaylist(
             MovedPlaylist(files[r.id], r.fromIndex, r.toIndex), r.updated.updatedAt))
    ELSE writeJson(normalizePlaylist(
             ReplacedPlaylist(files[r.id], r.tandaIndex, r.trackIndex,
                              FindTrack(library, r.replacementTrackId)),
             r.updated.updatedAt))

\* await writeJson(path, updated): the value computed from what was read.
PendingWrite(r, files) == r.updated

InitRace ==
    /\ library = MainCatalog
    /\ playlists = (0 :> RacePlaylist)
    /\ templates = <<>>
    /\ inflight = [c \in Clients |-> [pc |-> "idle"]]
    /\ now = 0
    /\ served = 0
    /\ req = [op |-> "none"]
    /\ res = [status |-> "none"]
    /\ call = [fn |-> "none"]

\* move-tanda up to: const playlist = await readPlaylist(req.params.id)
MoveTandaArrives(c) ==
    /\ inflight[c].pc = "idle"
    /\ \E id \in PlaylistIds, in \in RaceMoveInputs :
          inflight' = [inflight EXCEPT ![c] =
              [pc |-> "reading", op |-> "move-tanda", id |-> id,
               fromIndex |-> in[1], toIndex |-> in[2]]]
    /\ UNCHANGED <<library, playlists, templates, now, served, req, res, call>>

\* replace-track up to: const playlist = await readPlaylist(req.params.id)
ReplaceTrackArrives(c) ==
    /\ inflight[c].pc = "idle"
    /\ \E id \in PlaylistIds, in \in RaceReplaceInputs :
          inflight' = [inflight EXCEPT ![c] =
              [pc |-> "reading", op |-> "replace-track", id |-> id,
               tandaIndex |-> in[1], trackIndex |-> in[2],
               replacementTrackId |-> in[3]]]
    /\ UNCHANGED <<library, playlists, templates, now, served, req, res, call>>

\* A handler that answers without writing.
Answered(r, playlist, status) ==
    [op |-> r.op, id |-> r.id, pc |-> "done", playlist |-> playlist,
     readAfter |-> Written, status |-> status]

\* move-tanda from the completed read up to: await writeJson(..., updated)
MoveTandaResumes(c) ==
    LET r == inflight[c]
        playlist == readPlaylist(r.id)
        moved == MovedPlaylist(playlist, r.fromIndex, r.toIndex)
    IN  /\ r.pc = "reading"
        /\ r.op = "move-tanda"
        /\ inflight' = [inflight EXCEPT ![c] =
              IF playlist = null THEN Answered(r, playlist, "404")
              ELSE IF ~IsNumber(r.fromIndex) \/ ~IsNumber(r.toIndex)
              THEN Answered(r, playlist, "400")
              ELSE IF normalizePlaylistThrows(moved)
              THEN Answered(r, playlist, "unhandled")
              ELSE [op |-> r.op, id |-> r.id, fromIndex |-> r.fromIndex,
                    toIndex |-> r.toIndex, pc |-> "writing", playlist |-> playlist,
                    readAfter |-> Written,
                    updated |-> writeJson(normalizePlaylist(moved, now))]]
        /\ served' = IF inflight'[c].pc = "done" THEN served + 1 ELSE served
        /\ UNCHANGED <<library, playlists, templates, now, req, res, call>>

\* replace-track from the completed reads up to: await writeJson(..., updated)
ReplaceTrackResumes(c) ==
    LET r == inflight[c]
        playlist == readPlaylist(r.id)
        replacement == FindTrack(library, r.replacementTrackId)
        replaced == ReplacedPlaylist(playlist, r.tandaIndex, r.trackIndex, replacement)
    IN  /\ r.pc = "reading"
        /\ r.op = "replace-track"
        /\ inflight' = [inflight EXCEPT ![c] =
              IF playlist = null THEN Answered(r, playlist, "404")
              ELSE IF ~Truthy(replacement) THEN Answered(r, playlist, "400")
              ELSE IF ReplaceThrows(playlist, r.tandaIndex)
              THEN Answered(r, playlist, "unhandled")
              ELSE [op |-> r.op, id |-> r.id, tandaIndex |-> r.tandaIndex,
                    trackIndex |-> r.trackIndex,
                    replacementTrackId |-> r.replacementTrackId,
                    pc |-> "writing", playlist |-> playlist, readAfter |-> Written,
                    updated |-> writeJson(normalizePlaylist(replaced, now))]]
        /\ served' = IF inflight'[c].pc = "done" THEN served + 1 ELSE served
        /\ UNCHANGED <<library, playlists, templates, now, req, res, call>>

\* The awaited write completes and res.json(updated) is sent.
WriteCompletes(c) ==
    LET r == inflight[c]
    IN  /\ r.pc = "writing"
        /\ playlists' = Put(playlists, r.playlist.id, PendingWrite(r, playlists))
        /\ inflight' = [inflight EXCEPT ![c] =
              [r EXCEPT !.pc = "done"] @@ [status |-> "200", wroteAfter |-> Written]]
        /\ served' = served + 1
        /\ UNCHANGED <<library, templates, now, req, res, call>>

NextRace ==
    \/ Tick
    \/ \E c \in Clients : MoveTandaArrives(c)
    \/ \E c \in Clients : ReplaceTrackArrives(c)
    \/ \E c \in Clients : MoveTandaResumes(c)
    \/ \E c \in Clients : ReplaceTrackResumes(c)
    \/ \E c \in Clients : WriteCompletes(c)

SpecRace == InitRace /\ [][NextRace]_vars


(***************************************************************************)
(* Properties.                                                             *)
(***************************************************************************)
Created == req.op = "create" /\ res.status = "201"
Moved == req.op = "move-tanda" /\ res.status = "200"
Replaced == req.op = "replace-track" /\ res.status = "200"

\* C1: with a non-empty catalog, whatever the planner call does, the create
\* request ends with a persisted playlist and a 201: no planning-side failure
\* escapes the handler.
C1_CreateAlwaysPersists ==
    (req.op = "create" /\ Len(library) > 0) =>
        res.status = "201" /\ req.id \in DOMAIN playlists

\* The plan as the validator is specified: six entries, each an object whose
\* type is the pattern's style at its position and whose trackIds is an array.
WellShaped(plan) ==
    /\ IsObject(plan)
    /\ "tandas" \in DOMAIN plan.f
    /\ IsArray(plan.f.tandas)
    /\ Len(plan.f.tandas.v) = 6
    /\ \A i \in 1..6 :
          LET e == plan.f.tandas.v[i]
          IN  /\ IsObject(e)
              /\ "type" \in DOMAIN e.f
              /\ e.f.type = JStr(pattern[i])
              /\ "trackIds" \in DOMAIN e.f
              /\ IsArray(e.f.trackIds)

\* C2: a created playlist is tagged "agent" exactly when the planner returned
\* a parsed candidate that passes validation, and then carries hydrate's
\* tandas and cortinas; otherwise it is tagged "fallback" and carries a plan
\* of the fallback planner.
C2_SourceMatchesPlan ==
    Created =>
        LET doc == playlists[req.id]
            valid == req.outcome.kind = "parsed" /\ WellShaped(req.outcome.plan)
        IN  /\ (doc.generationSource = "agent") <=> valid
            /\ valid =>
                  /\ doc.tandas = hydratePlan(req.outcome.plan, library).tandas
                  /\ doc.cortinas = hydratePlan(req.outcome.plan, library).cortinas
            /\ ~valid =>
                  /\ doc.generationSource = "fallback"
                  /\ \E seed \in RandomStreams(1) :
                        /\ doc.tandas = fallbackPlaylistPlan(library, seed).tandas
                        /\ doc.cortinas = fallbackPlaylistPlan(library, seed).cortinas

\* A parsed candidate was discarded and the fallback plan persisted.
C2_Witness ==
    /\ Created
    /\ req.outcome.kind = "parsed"
    /\ Truthy(req.outcome.plan)
    /\ playlists[req.id].generationSource = "fallback"
    /\ playlists[req.id].tandas # <<>>

\* All tracks of a plan, tanda by tanda, then the cortinas that are present.
RECURSIVE Flatten(_)
Flatten(seqs) == IF seqs = <<>> THEN <<>> ELSE Head(seqs) \o Flatten(Tail(seqs))

PlanTracks(plan) ==
    Flatten([i \in 1..Len(plan.tandas) |-> plan.tandas[i].tracks])
    \o SelectSeq(plan.cortinas, LAMBDA c : c # null)

NoRepeat(tracks) ==
    \A i, j \in 1..Len(tracks) : i # j => tracks[i].id # tracks[j].id

Danceable(lib) ==
    Len(SelectSeq(lib, LAMBDA t : StyleOf(t) \in {"tango", "vals", "milonga"}))

\* C3: for a catalog of unique ids with at least 22 tango/vals/milonga
\* tracks, the fallback plan has six tandas styled tango, tango, vals, tango,
\* tango, milonga, none longer than its slot size, and no track id twice
\* among all tandas and cortinas.
C3_FallbackStructure ==
    (call.fn = "fallbackPlaylistPlan" /\ call.stage = "planned"
        /\ Danceable(call.lib) >= 22) =>
        /\ Len(call.result.tandas) = 6
        /\ \A i \in 1..6 :
              /\ call.result.tandas[i].type = pattern[i]
              /\ Len(call.result.tandas[i].tracks) <= patternSizes[i]
        /\ NoRepeat(PlanTracks(call.result))

\* A catalog that fills every slot and still leaves a cortina.
C3_Witness ==
    /\ call.fn = "fallbackPlaylistPlan"
    /\ call.stage = "planned"
    /\ Danceable(call.lib) >= 22
    /\ \A i \in 1..6 : Len(call.result.tandas[i].tracks) = patternSizes[i]
    /\ call.result.cortinas[1] # null

\* C4: validate returns true exactly for a well-shaped plan and returns
\* false, without raising, for every other plan.
C4_ValidateTotal ==
    call.valid \in {"true", "false", "threw"} =>
        /\ call.valid # "threw"
        /\ (call.valid = "true") <=> WellShaped(call.plan)


Range(arr) == {arr[i] : i \in 1..Len(arr)}

\* The ids of a list that name a catalog track, as tracks, in listed order.
RECURSIVE ResolvedInOrder(_, _)
ResolvedInOrder(ids, lib) ==
    IF ids = <<>> THEN <<>>
    ELSE LET found == {t \in Range(lib) : JStr(t.id) = Head(ids)}
         IN  (IF found = {} THEN <<>> ELSE <<CHOOSE t \in found : TRUE>>)
             \o ResolvedInOrder(Tail(ids), lib)

FirstN(arr, n) == [i \in 1..Min(n, Len(arr)) |-> arr[i]]

ListedIds(plan, i) == plan.f.tandas.v[i].f.trackIds.v

\* C5: hydrate gives tanda i the catalog tracks its listed ids name, in listed
\* order, cut to the slot size; never a track outside the catalog, never more
\* than the slot size, each tanda depending on its own list alone.
C5_HydrateResolves ==
    (call.fn = "hydratePlan" /\ call.stage = "hydrated") =>
        \A i \in 1..6 :
            LET got == call.result.tandas[i].tracks
            IN  /\ got = FirstN(ResolvedInOrder(ListedIds(call.plan, i), call.lib),
                                patternSizes[i])
                /\ Range(got) \subseteq Range(call.lib)
                /\ Len(got) <= patternSizes[i]

\* One tanda lists more resolvable ids than its slot holds, another is cut
\* short by an id the catalog does not have.
C5_Witness ==
    /\ call.fn = "hydratePlan"
    /\ call.stage = "hydrated"
    /\ \E i \in 1..6 :
          /\ Len(ResolvedInOrder(ListedIds(call.plan, i), call.lib)) > patternSizes[i]
          /\ Len(call.result.tandas[i].tracks) = patternSizes[i]
    /\ \E j \in 1..6 :
          /\ Len(call.result.tandas[j].tracks) < Len(ListedIds(call.plan, j))
          /\ Len(call.result.tandas[j].tracks) < patternSizes[j]

\* C6: every persisted playlist has exactly six tandas and exactly six
\* cortina slots.
C6_SixAndSix ==
    \A id \in DOMAIN playlists :
        Len(playlists[id].tandas) = 6 /\ Len(playlists[id].cortinas) = 6

StylesMatch(doc) ==
    /\ Len(doc.tandas) = Len(pattern)
    /\ \A i \in 1..Len(pattern) : doc.tandas[i].type = pattern[i]

StyleCount(types, s) == Cardinality({i \in 1..Len(types) : types[i] = s})

\* C7 as stated: every persisted playlist has tandas[i].style equal to the
\* pattern's style at position i, at creation and after every mutation.
C7_StylesAtPositions == \A id \in DOMAIN playlists : StylesMatch(playlists[id])

\* C7 as amended: a playlist matches the pattern position by position when it
\* is created, replace-track leaves every tanda's style where it was, and
\* after any moves the styles are still the pattern's styles, each as often
\* as in the pattern, though not at the pattern's positions.
C7_StylesTravel ==
    /\ Created => StylesMatch(playlists[req.id])
    /\ Replaced =>
          /\ Len(playlists[req.id].tandas) = Len(req.read.tandas)
          /\ \A i \in 1..Len(req.read.tandas) :
                playlists[req.id].tandas[i].type = req.read.tandas[i].type
    /\ \A id \in DOMAIN playlists :
          /\ Len(playlists[id].tandas) = Len(pattern)
          /\ \A s \in Range(pattern) :
                StyleCount([i \in 1..6 |-> playlists[id].tandas[i].type], s)
                    = StyleCount(pattern, s)

\* A move has put a tanda at a position of another style.
C7_Witness == Moved /\ ~StylesMatch(playlists[req.id])

\* An index the move-tanda contract accepts: an integer within 0..5.
InRange(v) == IsNumber(v) /\ v.n % v.d = 0 /\ (v.n \div v.d) \in 0..5

CortinaAt(doc, i) == IF i <= Len(doc.cortinas) THEN doc.cortinas[i] ELSE null

\* The (tanda, cortina) pairs of a playlist, position by position.
Pairs(doc) ==
    [i \in 1..Len(doc.tandas) |-> [tanda |-> doc.tandas[i], cortina |-> CortinaAt(doc, i)]]

Count(arr, x) == Cardinality({i \in 1..Len(arr) : arr[i] = x})
SameBag(a, b) == \A x \in Range(a) \cup Range(b) : Count(a, x) = Count(b, x)

Drop(arr, i) == SubSeq(arr, 1, i - 1) \o SubSeq(arr, i + 1, Len(arr))

\* C8: a move with both indices in 0..5 keeps the multiset of
\* (tanda, cortina) pairs, and a move of an index to itself changes nothing
\* but updatedAt.
C8_MoveIsPermutation ==
    (Moved /\ InRange(req.fromIndex) /\ InRange(req.toIndex)) =>
        /\ SameBag(Pairs(req.read), Pairs(playlists[req.id]))
        /\ req.fromIndex = req.toIndex =>
              [playlists[req.id] EXCEPT !.updatedAt = req.read.updatedAt] = req.read

\* C9: after a move with both indices in 0..5 the tanda and the cortina of
\* fromIndex are at toIndex and all other pairs keep their order and content.
C9_MoveCarriesPair ==
    (Moved /\ InRange(req.fromIndex) /\ InRange(req.toIndex)) =>
        LET from == req.fromIndex.n + 1
            to == req.toIndex.n + 1
            after == playlists[req.id]
        IN  /\ after.tandas[to] = req.read.tandas[from]
            /\ CortinaAt(after, to) = CortinaAt(req.read, from)
            /\ Drop(Pairs(after), to) = Drop(Pairs(req.read), from)

\* C10: move-tanda on an existing playlist with an index that is no integer
\* within 0..5 is rejected as an invalid argument and writes nothing.
C10_MoveRejectsBadIndex ==
    (req.op = "move-tanda" /\ req.read # null
        /\ ~(InRange(req.fromIndex) /\ InRange(req.toIndex))) =>
        /\ res.status = "400"
        /\ playlists[req.id] = req.read


(***************************************************************************)
(* C11.  replace-track with a replacementTrackId that names no catalog     *)
(* track is rejected (400 "replacementTrackId not found in library", or    *)
(* 404 when the playlist does not exist either) and no persisted playlist  *)
(* document changes, updatedAt included, whatever tandaIndex and           *)
(* trackIndex are.                                                         *)
(***************************************************************************)
InCatalog(lib, id) == \E i \in 1..Len(lib) : JStr(lib[i].id) = id

ReplaceStep == served' = served + 1 /\ req'.op = "replace-track"

C11_ReplaceUnknownTrackRejected ==
    [][(ReplaceStep /\ ~InCatalog(library, req'.replacementTrackId))
         => /\ playlists' = playlists
            /\ \/ /\ req'.read # null
                  /\ res' = [status |-> "400",
                             error |-> "replacementTrackId not found in library"]
               \/ /\ req'.read = null
                  /\ res' = [status |-> "404", error |-> "Playlist not found"]]_vars

C11_Witness ==
    /\ req.op = "replace-track"
    /\ ~InCatalog(library, req.replacementTrackId)
    /\ req.read # null
    /\ ElementAt(req.read.tandas, req.tandaIndex) = undefined
    /\ res.status = "400"
    /\ playlists[req.id] = req.read

(***************************************************************************)
(* C12.  A successful replace-track changes only the single track at       *)
(* (tandaIndex, trackIndex): the targeted tanda keeps its length and its   *)
(* other members, and every other tanda and every cortina slot is as it    *)
(* was read.                                                               *)
(***************************************************************************)
C12_ReplaceChangesOneTrack ==
    Replaced =>
        LET before == req.read
            after == playlists[req.id]
            ti == ArrayIndex(req.tandaIndex) + 1
            ki == ArrayIndex(req.trackIndex) + 1
        IN  /\ Len(after.tandas) = Len(before.tandas)
            /\ after.cortinas = before.cortinas
            /\ \A i \in 1..Len(before.tandas) :
                   i # ti => after.tandas[i] = before.tandas[i]
            /\ Len(after.tandas[ti].tracks) = Len(before.tandas[ti].tracks)
            /\ ki \in 1..Len(before.tandas[ti].tracks)
            /\ after.tandas[ti].tracks[ki] = FindTrack(library, req.replacementTrackId)
            /\ \A k \in 1..Len(before.tandas[ti].tracks) :
                   k # ki => after.tandas[ti].tracks[k] = before.tandas[ti].tracks[k]

(***************************************************************************)
(* C13.  Hydrating a validated plan resolves cortinas by position: slot i  *)
(* (i = 0..5) is the catalog track cortinaTrackIds[i] names, and is absent *)
(* when that entry names none, so nothing shifts into an earlier slot;     *)
(* entries past the sixth are ignored.                                     *)
(***************************************************************************)
CortinaNamed(ids, lib, i) ==
    IF i <= Len(ids) /\ InCatalog(lib, ids[i])
    THEN CHOOSE t \in Range(lib) : JStr(t.id) = ids[i]
    ELSE null

C13_CortinasPositional ==
    (call.fn = "hydratePlan" /\ call.stage = "hydrated")
    => LET given == Get(call.plan, "cortinaTrackIds")
           ids == IF IsArray(given) THEN given.v ELSE <<>>
       IN  \A i \in 1..6 :
              CortinaAt(call.result, i) = CortinaNamed(ids, call.lib, i)

(***************************************************************************)
(* C14.  A saved tanda record holds the tanda by value as it was when it   *)
(* was extracted: the extraction stores the tanda the playlist holds at    *)
(* tandaIndex and leaves every playlist document unchanged, and no later   *)
(* request other than another extraction (move-tanda, replace-track, a     *)
(* create that overwrites the source playlist) changes any stored record.  *)
(***************************************************************************)
SaveStep == served' = served + 1 /\ req'.op = "save-tanda"
Saved == req.op = "save-tanda" /\ res.status = "201"

C14_TemplateIsACopy ==
    [][/\ templates' # templates => SaveStep
       /\ SaveStep => playlists' = playlists
       /\ (SaveStep /\ res'.status = "201")
            => /\ templates'[now].tanda =
                     ElementAt(playlists[req'.id].tandas, req'.tandaIndex)
               /\ templates'[now].sourcePlaylistId = req'.id
               /\ \A k \in DOMAIN templates : k # now => templates'[k] = templates[k]]_vars

\* A record outlives an edit of its source: the tanda it holds was in the
\* playlist before the last request and is no longer.
C14_Witness ==
    /\ Moved \/ Replaced
    /\ \E k \in DOMAIN templates :
          /\ templates[k].sourcePlaylistId = req.id
          /\ templates[k].tanda \in Range(req.read.tandas)
          /\ templates[k].tanda \notin Range(playlists[req.id].tandas)

(***************************************************************************)
(* C15.  When two move-tanda / replace-track requests on one playlist both *)
(* read the document before either writes it, both are answered 200 and    *)
(* the document left on disk is the later writer's edit of the document    *)
(* they read: the earlier writer's edit is not in it.                      *)
(***************************************************************************)
\* The request's edit applied to a document.
EditOf(r, doc) ==
    IF r.op = "move-tanda" THEN MovedPlaylist(doc, r.fromIndex, r.toIndex)
    ELSE ReplacedPlaylist(doc, r.tandaIndex, r.trackIndex,
                          FindTrack(library, r.replacementTrackId))

\* a and b read before either wrote, and both writes have completed, b's last.
Raced(a, b) ==
    /\ a # b
    /\ inflight[a].pc = "done" /\ inflight[b].pc = "done"
    /\ inflight[a].id = inflight[b].id
    /\ inflight[a].readAfter = {} /\ inflight[b].readAfter = {}
    /\ "updated" \in DOMAIN inflight[a] /\ "updated" \in DOMAIN inflight[b]
    /\ a \in inflight[b].wroteAfter

C15_LaterWriteWins ==
    \A a, b \in Clients :
        Raced(a, b)
        => /\ inflight[a].status = "200" /\ inflight[b].status = "200"
           /\ inflight[a].playlist = RacePlaylist /\ inflight[b].playlist = RacePlaylist
           /\ playlists[inflight[b].id].tandas = EditOf(inflight[b], RacePlaylist).tandas
           /\ playlists[inflight[b].id].cortinas
                 = EditOf(inflight[b], RacePlaylist).cortinas

\* The race loses a real edit: the earlier writer changed the tandas, and
\* the document differs from the one the two requests give one after another.
C15_Witness ==
    \E a, b \in Clients :
        /\ Raced(a, b)
        /\ inflight[a].updated.tandas # RacePlaylist.tandas
        /\ playlists[inflight[b].id].tandas
              # EditOf(inflight[b], inflight[a].updated).tandas
        /\ playlists[inflight[b].id].tandas = inflight[b].updated.tandas

(***************************************************************************)
(* C16.  A move-tanda, replace-track or tanda-library request that names a *)
(* playlist that does not exist, and a replace-track or tanda-library      *)
(* request whose tandaIndex names no tanda of the playlist, is answered    *)
(* with a not-found rejection and changes no playlist document and no      *)
(* saved tanda record.                                                     *)
(***************************************************************************)
NotFoundResponse(r) ==
    \/ r.status = "404"
    \/ r = [status |-> "400", error |-> "replacementTrackId not found in library"]

MissingReference(r) ==
    /\ r.op \in {"move-tanda", "replace-track", "save-tanda"}
    /\ \/ r.read = null
       \/ /\ r.op \in {"replace-track", "save-tanda"}
          /\ ~Truthy(ElementAt(r.read.tandas, r.tandaIndex))

C16_MissingReferenceIsNotFound ==
    [][(served' = served + 1 /\ MissingReference(req'))
         => /\ NotFoundResponse(res')
            /\ playlists' = playlists
            /\ templates' = templates]_vars

(***************************************************************************)
(* C17.  Every create that persists a playlist gives it an id no existing  *)
(* playlist has, so a create never overwrites a persisted document.        *)
(***************************************************************************)
C17_CreateIdIsFresh ==
    [][(served' = served + 1 /\ req'.op = "create" /\ res'.status = "201")
         => /\ req'.id \notin DOMAIN playlists
            /\ \A id \in DOMAIN playlists : playlists'[id] = playlists[id]]_vars

(***************************************************************************)
(* C18.  groupByStyle partitions the catalog and drops nothing: it returns *)
(* four buckets, every track is in exactly one of them, a track whose      *)
(* style is tango, vals, milonga or cortina is in that bucket, and a track *)
(* whose style is missing or any other value is in the tango bucket.       *)
(***************************************************************************)
Buckets == {"tango", "vals", "milonga", "cortina"}

C18_GroupingIsAPartition ==
    (call.fn = "groupByStyle" /\ call.stage # "raw")
    => /\ call.stage = "grouped"
       /\ DOMAIN call.result = Buckets
       /\ \A i \in 1..Len(call.lib) :
             LET home == IF StyleOf(call.lib[i]) \in Buckets
                         THEN StyleOf(call.lib[i]) ELSE "tango"
             IN  \A s \in Buckets :
                    Count(call.result[s], call.lib[i]) = IF s = home THEN 1 ELSE 0
       /\ \A s \in Buckets : Range(call.result[s]) \subseteq Range(call.lib)

(***************************************************************************)
(* C19.  The fallback plan fills the six slots greedily in order, for any  *)
(* catalog however small: tanda i holds exactly min(size_i, tracks of slot *)
(* i's style bucket that no earlier slot took) tracks, all of that bucket, *)
(* no track is repeated, and a shortfall gives a shorter or empty tanda.   *)
(***************************************************************************)
Home(t) == IF StyleOf(t) \in Buckets THEN StyleOf(t) ELSE "tango"

BucketSize(lib, s) == Cardinality({i \in 1..Len(lib) : Home(lib[i]) = s})

TakenBefore(tandas, i) ==
    Len(Flatten([j \in 1..(i - 1) |->
                    IF pattern[j] = pattern[i] THEN tandas[j].tracks ELSE <<>>]))

TandaSizes(plan) == [i \in 1..Len(plan.tandas) |-> Len(plan.tandas[i].tracks)]

C19_FallbackFillsGreedily ==
    (call.fn = "fallbackPlaylistPlan" /\ call.stage # "raw")
    => /\ call.stage = "planned"
       /\ Len(call.result.tandas) = 6
       /\ \A i \in 1..6 :
             /\ Len(call.result.tandas[i].tracks)
                  = Min(patternSizes[i],
                        BucketSize(call.lib, pattern[i])
                          - TakenBefore(call.result.tandas, i))
             /\ \A t \in Range(call.result.tandas[i].tracks) :
                   t \in Range(call.lib) /\ Home(t) = pattern[i]
       /\ NoRepeat(Flatten([i \in 1..6 |-> call.result.tandas[i].tracks]))

\* 4 tango, 3 vals and 3 milonga tracks: tandas of 4, 0, 3, 0, 0 and 3.
C19_Witness ==
    /\ call.fn = "fallbackPlaylistPlan"
    /\ call.stage = "planned"
    /\ Len(call.lib) = 10
    /\ BucketSize(call.lib, "tango") = 4
    /\ BucketSize(call.lib, "vals") = 3
    /\ BucketSize(call.lib, "milonga") = 3
    /\ TandaSizes(call.result) = <<4, 0, 3, 0, 0, 3>>

(***************************************************************************)
(* C20.  The six cortina slots of a fallback plan are filled in order from *)
(* one pool, the cortina bucket when it has tracks and otherwise the tango *)
(* tracks no tanda took: the first min(6, pool size) slots hold distinct   *)
(* tracks of the pool, the rest are null, and no cortina is a track of a   *)
(* tanda.                                                                  *)
(***************************************************************************)
TandaTracks(plan) == Range(Flatten([i \in 1..Len(plan.tandas) |-> plan.tandas[i].tracks]))

CortinaPoolOf(lib, plan) ==
    IF BucketSize(lib, "cortina") > 0
    THEN {t \in Range(lib) : Home(t) = "cortina"}
    ELSE {t \in Range(lib) : Home(t) = "tango"} \ TandaTracks(plan)

C20_FallbackCortinas ==
    (call.fn = "fallbackPlaylistPlan" /\ call.stage = "planned")
    => LET pool == CortinaPoolOf(call.lib, call.result)
           n == Min(6, Cardinality(pool))
           cortinas == call.result.cortinas
       IN  /\ Len(cortinas) = 6
           /\ \A i \in 1..6 :
                 IF i <= n THEN cortinas[i] \in pool ELSE cortinas[i] = null
           /\ \A i, j \in 1..n : i # j => cortinas[i] # cortinas[j]
           /\ \A i \in 1..6 : cortinas[i] \notin TandaTracks(call.result)

\* No cortina tracks and one tango track left over: it is the first cortina
\* and the other five slots are null.
C20_Witness ==
    /\ call.fn = "fallbackPlaylistPlan"
    /\ call.stage = "planned"
    /\ BucketSize(call.lib, "cortina") = 0
    /\ call.result.cortinas[1] # null
    /\ Home(call.result.cortinas[1]) = "tango"
    /\ call.result.cortinas[2] = null

(***************************************************************************)
(* C21.  A playlist tagged "fallback" says in agentDebug why the agent     *)
(* plan was not used: a reason when there was no planner or its call       *)
(* failed, a validation note when a parsed candidate was discarded; a      *)
(* playlist tagged "agent" carries neither.  The create that wrote it      *)
(* records the cause that applies to its planner outcome.                  *)
(***************************************************************************)
Explained(d) ==
    \/ ~d.enabled /\ d.reason \in {NoKeyReason, FailedReason} /\ d.validation = ""
    \/ d.enabled /\ d.reason = "" /\ d.validation = InvalidNote

C21_FallbackIsExplained ==
    /\ \A id \in DOMAIN playlists :
          LET doc == playlists[id]
          IN  /\ doc.generationSource = "fallback" => Explained(doc.agentDebug)
              /\ doc.generationSource = "agent"
                    => doc.agentDebug.reason = "" /\ doc.agentDebug.validation = ""
    /\ Created =>
          LET d == playlists[req.id].agentDebug
              kind == req.outcome.kind
          IN  /\ kind = "nokey" => d.reason = NoKeyReason
              /\ kind \in {"rejected", "unparseable"} => d.reason = FailedReason
              /\ (kind = "parsed" /\ ~WellShaped(req.outcome.plan))
                    => \/ d.validation = InvalidNote
                       \/ d.reason = FailedReason
              /\ (kind = "parsed" /\ IsObject(req.outcome.plan)
                     /\ Len(Get(req.outcome.plan, "tandas").v) # 6)
                    => d.validation = InvalidNote

\* A parsed candidate with five entries was discarded, and the note says so.
C21_Witness ==
    /\ Created
    /\ req.outcome.kind = "parsed"
    /\ IsObject(req.outcome.plan)
    /\ playlists[req.id].generationSource = "fallback"
    /\ playlists[req.id].agentDebug.enabled
    /\ playlists[req.id].agentDebug.validation = InvalidNote

(***************************************************************************)
(* C22.  A create request over an empty catalog is rejected before the     *)
(* planner is consulted: it is answered 400, the planner is not called and *)
(* no playlist document is written or changed; so a persisted playlist     *)
(* always comes from a catalog with at least one track.                    *)
(***************************************************************************)
C22_EmptyCatalogRejected ==
    [][/\ (served' = served + 1 /\ req'.op = "create" /\ Len(library) = 0)
            => /\ res' = [status |-> "400",
                          error |-> "Library is empty. Scan library first."]
               /\ ~req'.called
               /\ playlists' = playlists
       /\ DOMAIN playlists' # {} => Len(library') > 0]_vars

C22_Witness ==
    /\ req.op = "create"
    /\ Len(library) = 0
    /\ res.status = "400"
    /\ ~req.called
    /\ DOMAIN playlists = {}

====
